---------------------------- MODULE Spec2Model ----------------------------
(***************************************************************************)
(* Model of podcats (src/podcats.py): a podcast feed generator.  Strings   *)
(* are sequences of one-character strings, so that slicing, splitting and  *)
(* escaping are computed as the code computes them.  A float timestamp is  *)
(* a pair <<seconds, half>>: whole seconds and a sub-second part (0 or 1   *)
(* half-seconds), which formatdate drops.                                  *)
(***************************************************************************)
EXTENDS Integers, Sequences, FiniteSets, TLC

(***************************************************************************)
(* Bounds of the model.                                                    *)
(***************************************************************************)
MaxFsOps == 2
MaxRequests == 2
MaxStrLen == 3

(***************************************************************************)
(* Generic sequence helpers.                                               *)
(***************************************************************************)
RECURSIVE Flatten(_)
Flatten(ss) == IF ss = <<>> THEN <<>> ELSE Head(ss) \o Flatten(Tail(ss))

RECURSIVE SetToSeqBy(_, _)
\* the elements of S in ascending order of the injective rank function
SetToSeqBy(S, rank) ==
    IF S = {} THEN <<>>
    ELSE LET x == CHOOSE y \in S : \A z \in S : rank[y] <= rank[z]
         IN <<x>> \o SetToSeqBy(S \ {x}, rank)

Range(s) == {s[i] : i \in DOMAIN s}

\* Python's  sub in s
Contains(sub, s) ==
    \E i \in 0..(Len(s) - Len(sub)) : SubSeq(s, i + 1, i + Len(sub)) = sub
\* Python's  s[n:]
SliceFrom(s, n) == SubSeq(s, n + 1, Len(s))

\* index of the last occurrence of character c in s, 0 if none (str.rfind + 1)
RFind(s, c) ==
    LET I == {i \in DOMAIN s : s[i] = c}
    IN IF I = {} THEN 0 ELSE CHOOSE i \in I : \A j \in I : j <= i

(***************************************************************************)
(* os.path and mimetypes, as used by the program.                          *)
(***************************************************************************)
SEP == "/"

\* os.path.join(a, b) for a relative b
PathJoin(a, b) ==
    IF a = <<>> \/ a[Len(a)] = SEP THEN a \o b ELSE a \o <<SEP>> \o b

\* os.path.basename
Basename(p) == SliceFrom(p, RFind(p, SEP))

\* os.path.splitext: the extension starts at the last dot of the last
\* component, unless that dot only leads the component
Splitext(p) ==
    LET sepIdx == RFind(p, SEP)
        dotIdx == RFind(p, ".")
        lead == {i \in (sepIdx + 1)..dotIdx : p[i] # "."}
    IN IF dotIdx > sepIdx /\ lead # {}
       THEN <<SubSeq(p, 1, dotIdx - 1), SliceFrom(p, dotIdx - 1)>>
       ELSE <<p, <<>>>>

NoType == <<>>
AudioMpeg == <<"a","u","d","i","o","/","m","p","e","g">>
AudioOgg == <<"a","u","d","i","o","/","o","g","g">>
TextPlain == <<"t","e","x","t","/","p","l","a","i","n">>
AppRealAudio ==
    <<"a","p","p","l","i","c","a","t","i","o","n","/",
      "x","-","p","n","-","r","e","a","l","a","u","d","i","o">>

\* mimetypes.guess_type(path)[0]: a pure function of the extension; NoType
\* stands for None.  The table is the part of mimetypes.types_map the model
\* uses.
GuessType(p) ==
    LET ext == Splitext(p)[2]
    IN CASE ext = <<".","m","p","3">> -> AudioMpeg
         [] ext = <<".","o","g","g">> -> AudioOgg
         [] ext = <<".","t","x","t">> -> TextPlain
         [] ext = <<".","r","a","m">> -> AppRealAudio
         [] OTHER -> NoType

AUDIO == <<"a","u","d","i","o">>

\* the part of a MIME type before the slash
TopLevel(m) ==
    LET I == {i \in DOMAIN m : m[i] = "/"}
    IN IF I = {} THEN m
       ELSE SubSeq(m, 1, (CHOOSE i \in I : \A j \in I : i <= j) - 1)

(***************************************************************************)
(* xml.sax.saxutils.escape and quoteattr, and the decoding an XML parser   *)
(* applies to what they produce.                                           *)
(***************************************************************************)
\* str.replace(c, r) for a one-character c
Replace(s, c, r) == Flatten([i \in DOMAIN s |-> IF s[i] = c THEN r ELSE <<s[i]>>])

AMP == <<"&","a","m","p",";">>
GT == <<"&","g","t",";">>
LT == <<"&","l","t",";">>
QUOT == <<"&","q","u","o","t",";">>
NL == <<"&","#","1","0",";">>

\* an escape that replaces "&" after the other two, escaping their "&" again
EscapeAmpLast(data) == Replace(Replace(Replace(data, ">", GT), "<", LT), "&", AMP)

\* escape(data): "&" first, then ">" and "<"
Escape(data) == Replace(Replace(Replace(data, "&", AMP), ">", GT), "<", LT)

\* quoteattr(data): escape, newline as a character reference, then the
\* quote character that needs the least escaping
QuoteAttr(data) ==
    LET e == Replace(Escape(data), "\n", NL)
    IN IF "\"" \in Range(e)
       THEN IF "'" \in Range(e)
            THEN <<"\"">> \o Replace(e, "\"", QUOT) \o <<"\"">>
            ELSE <<"'">> \o e \o <<"'">>
       ELSE <<"\"">> \o e \o <<"\"">>

\* the character an entity or character reference stands for; "" if unknown
EntityChar(name) ==
    CASE name = <<"a","m","p">> -> "&"
      [] name = <<"l","t">> -> "<"
      [] name = <<"g","t">> -> ">"
      [] name = <<"q","u","o","t">> -> "\""
      [] name = <<"a","p","o","s">> -> "'"
      [] name = <<"#","1","0">> -> "\n"
      [] OTHER -> ""

MALFORMED == <<"malformed">>

RECURSIVE XmlDecode(_)
\* character data as an XML parser reads it back; MALFORMED if it holds a
\* bare "<" or an "&" that starts no reference
XmlDecode(s) ==
    IF s = <<>> THEN <<>>
    ELSE IF Head(s) = "<" THEN MALFORMED
    ELSE IF Head(s) = "&"
         THEN LET J == {j \in DOMAIN s : s[j] = ";"}
              IN IF J = {} THEN MALFORMED
                 ELSE LET j == CHOOSE k \in J : \A l \in J : k <= l
                          c == EntityChar(SubSeq(s, 2, j - 1))
                          rest == XmlDecode(SliceFrom(s, j))
                      IN IF c = "" \/ rest = MALFORMED THEN MALFORMED
                         ELSE <<c>> \o rest
    ELSE LET rest == XmlDecode(Tail(s))
         IN IF rest = MALFORMED THEN MALFORMED ELSE <<Head(s)>> \o rest

\* an attribute as an XML parser reads it: the value runs from the opening
\* quote to the next occurrence of the same quote, which must end the text
AttrDecode(a) ==
    IF Len(a) < 2 \/ a[1] \notin {"\"", "'"} THEN MALFORMED
    ELSE LET J == {j \in 2..Len(a) : a[j] = a[1]}
         IN IF J = {} \/ (CHOOSE k \in J : \A l \in J : k <= l) # Len(a)
            THEN MALFORMED
            ELSE XmlDecode(SubSeq(a, 2, Len(a) - 1))

(***************************************************************************)
(* Time: time.strptime, time.mktime and email.utils.formatdate.            *)
(***************************************************************************)
DigitVal ==
    "0" :> 0 @@ "1" :> 1 @@ "2" :> 2 @@ "3" :> 3 @@ "4" :> 4 @@
    "5" :> 5 @@ "6" :> 6 @@ "7" :> 7 @@ "8" :> 8 @@ "9" :> 9
Digits == DOMAIN DigitVal

RECURSIVE NumVal(_)
NumVal(s) == IF s = <<>> THEN 0 ELSE 10 * NumVal(SubSeq(s, 1, Len(s) - 1)) + DigitVal[s[Len(s)]]

IsLeap(y) == (y % 4 = 0 /\ y % 100 # 0) \/ y % 400 = 0
DaysInMonth(y, m) ==
    IF m = 2 THEN (IF IsLeap(y) THEN 29 ELSE 28)
    ELSE IF m \in {4, 6, 9, 11} THEN 30 ELSE 31

\* days since 1970-01-01 of a proleptic Gregorian date
DaysFromCivil(y, m, d) ==
    LET yy == IF m <= 2 THEN y - 1 ELSE y
        era == yy \div 400
        yoe == yy - era * 400
        mp == IF m > 2 THEN m - 3 ELSE m + 9
        doy == (153 * mp + 2) \div 5 + d - 1
        doe == yoe * 365 + yoe \div 4 - yoe \div 100 + doy
    IN era * 146097 + doe - 719468

CivilFromDays(z) ==
    LET zz == z + 719468
        era == zz \div 146097
        doe == zz - era * 146097
        yoe == (doe - doe \div 1460 + doe \div 36524 - doe \div 146096) \div 365
        doy == doe - (365 * yoe + yoe \div 4 - yoe \div 100)
        mp == (5 * doy + 2) \div 153
        d == doy - (153 * mp + 2) \div 5 + 1
        m == IF mp < 10 THEN mp + 3 ELSE mp - 9
        y == yoe + era * 400 + (IF m <= 2 THEN 1 ELSE 0)
    IN [Y |-> y, M |-> m, D |-> d]

\* the fields of s between the separators "-" and ":", and the separators
RECURSIVE SplitFields(_, _, _, _)
SplitFields(s, cur, fields, seps) ==
    IF s = <<>> THEN <<Append(fields, cur), seps>>
    ELSE IF Head(s) \in {"-", ":"}
         THEN SplitFields(Tail(s), <<>>, Append(fields, cur), Append(seps, Head(s)))
         ELSE SplitFields(Tail(s), Append(cur, Head(s)), fields, seps)

\* the directives %Y %m %d %H %M %S as _strptime's regular expressions
\* accept them: field number i of a format, given as characters
FieldOk(i, f) ==
    /\ Range(f) \subseteq Digits
    /\ CASE i = 1 -> Len(f) = 4 /\ NumVal(f) >= 1
         [] i = 2 -> (Len(f) = 1 /\ NumVal(f) >= 1) \/ (Len(f) = 2 /\ NumVal(f) \in 1..12)
         [] i = 3 -> (Len(f) = 1 /\ NumVal(f) >= 1) \/ (Len(f) = 2 /\ NumVal(f) \in 1..31)
         [] i = 4 -> Len(f) = 1 \/ (Len(f) = 2 /\ NumVal(f) <= 23)
         [] i = 5 -> Len(f) = 1 \/ (Len(f) = 2 /\ NumVal(f) <= 59)
         [] i = 6 -> Len(f) = 1 \/ (Len(f) = 2 /\ NumVal(f) <= 61)

FormatSeps == <<"-", "-", ":", ":", ":">>
\* the six formats of Episode.date, in the order tried: format k has
\* 7 - k fields ('%Y-%m-%d:%H:%M:%S' down to '%Y')
NFormats == 6
FieldsOf(k) == NFormats + 1 - k

\* time.strptime(s, formats[k]): [ok |-> FALSE] stands for ValueError
Strptime(s, k) ==
    LET sp == SplitFields(s, <<>>, <<>>, <<>>)
        fs == sp[1]
        n == FieldsOf(k)
        val(i, dflt) == IF i <= n THEN NumVal(fs[i]) ELSE dflt
    IN IF /\ Len(fs) = n
          /\ sp[2] = SubSeq(FormatSeps, 1, n - 1)
          /\ \A i \in 1..n : FieldOk(i, fs[i])
          /\ val(3, 1) <= DaysInMonth(val(1, 0), val(2, 1))
       THEN [ok |-> TRUE, Y |-> val(1, 0), M |-> val(2, 1), D |-> val(3, 1),
             h |-> val(4, 0), m |-> val(5, 0), s |-> val(6, 0)]
       ELSE [ok |-> FALSE, Y |-> 0, M |-> 0, D |-> 0, h |-> 0, m |-> 0, s |-> 0]

\* time.mktime of a struct_time in a zone tzoff seconds east of UTC: a float
\* with no sub-second part
Mktime(st, tzoff) ==
    <<DaysFromCivil(st.Y, st.M, st.D) * 86400 + st.h * 3600 + st.m * 60 + st.s - tzoff, 0>>

\* formatdate(t): the UTC calendar fields of the whole seconds of t
FormatDate(t) ==
    LET days == t[1] \div 86400
        rem == t[1] % 86400
        c == CivilFromDays(days)
    IN [Y |-> c.Y, M |-> c.M, D |-> c.D,
        h |-> rem \div 3600, m |-> (rem % 3600) \div 60, s |-> rem % 60]

\* the instant a printed pubDate names, in seconds
ParsePubDate(p) == DaysFromCivil(p.Y, p.M, p.D) * 86400 + p.h * 3600 + p.m * 60 + p.s

\* cmp(a, b) < 0 on float timestamps
TimeLess(a, b) == a[1] < b[1] \/ (a[1] = b[1] /\ a[2] < b[2])
\* Python's truth value of a float
Truthy(t) == t # <<0, 0>>

(***************************************************************************)
(* The filesystem under the root directory and what the tag library        *)
(* (mutagen) reports for each file.                                        *)
(***************************************************************************)
SUB == <<"s","u","b">>
DEEP == <<"d","p">>

\* the files that may exist, each in a directory given by its components
\* below the root
FileA == [dir |-> <<>>, name |-> <<"a",".","m","p","3">>]
FileB == [dir |-> <<SUB>>, name |-> <<"b",".","m","p","3">>]
FileC == [dir |-> <<SUB, DEEP>>, name |-> <<"c",".","o","g","g">>]
FileR == [dir |-> <<>>, name |-> <<"r",".","r","a","m">>]
FileT == [dir |-> <<SUB>>, name |-> <<"n",".","t","x","t">>]
FileX == [dir |-> <<>>, name |-> <<"x">>]
Files == {FileA, FileB, FileC, FileR, FileT, FileX}
\* the order in which a directory listing returns its entries
ListRank == FileX :> 1 @@ FileA :> 2 @@ FileR :> 3 @@ FileT :> 4 @@ FileB :> 5 @@ FileC :> 6

\* the directories of the tree, as component sequences
Dirs == UNION {{SubSeq(f.dir, 1, n) : n \in 0..Len(f.dir)} : f \in Files}
SubdirsOf(d) == {e \in Dirs : Len(e) = Len(d) + 1 /\ SubSeq(e, 1, Len(d)) = d}
DirRank == [d \in Dirs |-> Len(d)]

NONE == <<"None">>
NUL == "NUL"

\* what mutagen.File(f, easy=True) and ID3(f) give for a file: file is
\* "raise" (mutagen.File raises), "none" (it returns None) or "map" (a tag
\* mapping holding the keys with their value lists); id3 is FALSE when the
\* ID3 container cannot be opened
MetaPlain ==
    [file |-> "map", keys |-> {}, date |-> <<>>, id3 |-> TRUE, TIT2 |-> <<>>, COMM |-> <<>>]
MetaNoId3 ==
    [file |-> "map", keys |-> {}, date |-> <<>>, id3 |-> FALSE, TIT2 |-> <<>>, COMM |-> <<>>]
MetaNone ==
    [file |-> "none", keys |-> {}, date |-> <<>>, id3 |-> FALSE, TIT2 |-> <<>>, COMM |-> <<>>]
MetaRaise ==
    [file |-> "raise", keys |-> {}, date |-> <<>>, id3 |-> FALSE, TIT2 |-> <<>>, COMM |-> <<>>]
MetaDated(d) ==
    [file |-> "map", keys |-> {"date"}, date |-> <<d>>, id3 |-> TRUE, TIT2 |-> <<>>, COMM |-> <<>>]
MetaTitled(t, c) ==
    [file |-> "map", keys |-> {}, date |-> <<>>, id3 |-> TRUE, TIT2 |-> t, COMM |-> c]

Date1970 == <<"1","9","7","0">>
Date1971 == <<"1","9","7","1">>
INTRO == <<"I","n","t","r","o">>

Absent == [there |-> FALSE, mtime |-> <<0, 0>>, meta |-> MetaPlain]

(***************************************************************************)
(* Episode.                                                                *)
(***************************************************************************)
\* Episode.__init__: the tags and the ID3 frames are read once and kept.
\* file names the file behind filename, and mt0 records its mtime at this
\* moment; the program keeps neither.
NewEpisode(f, filename, url, meta, mt0) ==
    [file |-> f, mt0 |-> mt0, filename |-> filename, url |-> url,
     tags |-> [isNone |-> meta.file = "none", keys |-> meta.keys, date |-> meta.date],
     id3 |-> [ok |-> meta.id3, TIT2 |-> meta.TIT2, COMM |-> meta.COMM]]

\* Episode.get_tag: KeyError and IndexError give None; a tags object that is
\* None raises TypeError, which is not caught
GetTag(tags, name) ==
    IF tags.isNone THEN [err |-> "TypeError: NoneType tags", v |-> NONE]
    ELSE IF name \notin tags.keys THEN [err |-> "", v |-> NONE]
    ELSE IF tags[name] = <<>> THEN [err |-> "", v |-> NONE]
    ELSE [err |-> "", v |-> tags[name][1]]

\* the first of the six formats that parses dt, 0 if none does
FirstFormat(dt) ==
    LET K == {k \in 1..NFormats : Strptime(dt, k).ok}
    IN IF K = {} THEN 0 ELSE CHOOSE k \in K : \A j \in K : k <= j

NoTime == <<0, 0>>

\* the truth test of  if not dt:  on the parsed timestamp
UseMtime(parsed, t) == ~parsed \/ ~Truthy(t)

\* Episode.date: mt is what os.path.getmtime would give now, [ok |-> FALSE]
\* when it raises OSError
EpisodeDate(tags, tzoff, mt) ==
    LET g == GetTag(tags, "date")
        dt == g.v
        k == IF dt # NONE /\ dt # <<>> THEN FirstFormat(dt) ELSE 0
        t == IF k # 0 THEN Mktime(Strptime(dt, k), tzoff) ELSE NoTime
    IN IF g.err # "" THEN [err |-> g.err, t |-> NoTime]
       ELSE IF UseMtime(k # 0, t)
            THEN (IF mt.ok THEN [err |-> "", t |-> mt.t]
                  ELSE [err |-> "OSError", t |-> NoTime])
            ELSE [err |-> "", t |-> t]

\* str() of an ID3 frame: its text values joined by NUL
RECURSIVE FrameStr(_)
FrameStr(frame) ==
    IF frame = <<>> THEN <<>>
    ELSE IF Len(frame) = 1 THEN frame[1]
    ELSE frame[1] \o <<NUL>> \o FrameStr(Tail(frame))

\* a title that puts a space before the title tag as well
EpisodeTitleSpaced(filename, id3) ==
    LET stem == Splitext(Basename(filename))[1]
        t1 == IF id3.ok /\ Len(id3.TIT2) > 0
              THEN stem \o <<" ">> \o FrameStr(id3.TIT2[1]) ELSE stem
    IN IF id3.ok /\ Len(id3.COMM) > 0 THEN t1 \o <<" ">> \o FrameStr(id3.COMM[1]) ELSE t1

\* Episode.title
EpisodeTitle(filename, id3) ==
    LET stem == Splitext(Basename(filename))[1]
        t1 == IF id3.ok /\ Len(id3.TIT2) > 0 THEN stem \o FrameStr(id3.TIT2[1]) ELSE stem
    IN IF id3.ok /\ Len(id3.COMM) > 0 THEN t1 \o <<" ">> \o FrameStr(id3.COMM[1]) ELSE t1

\* Episode.mimetype
EpisodeMimetype(filename) == GuessType(filename)

\* Episode.as_xml: the fields placed in EPISODE_TEMPLATE
EpisodeXml(ep, tzoff, mt) ==
    LET d == EpisodeDate(ep.tags, tzoff, mt)
    IN [err |-> d.err,
        item |-> [file |-> ep.file,
                  title |-> Escape(EpisodeTitle(ep.filename, ep.id3)),
                  url |-> QuoteAttr(ep.url),
                  quid |-> Escape(ep.url),
                  mimetype |-> EpisodeMimetype(ep.filename),
                  date |-> FormatDate(d.t)]]

(***************************************************************************)
(* Channel.                                                                *)
(***************************************************************************)
RECURSIVE RStrip(_, _)
RStrip(s, c) == IF s # <<>> /\ s[Len(s)] = c THEN RStrip(SubSeq(s, 1, Len(s) - 1), c) ELSE s

\* Channel.__init__: an empty argument stands for None
NewChannel(root_dir, root_url, title, link, cwd) ==
    LET rd == IF root_dir # <<>> THEN root_dir ELSE cwd
    IN [root_dir |-> rd, root_url |-> root_url,
        link |-> IF link # <<>> THEN link ELSE root_url,
        title |-> IF title # <<>> THEN title ELSE Basename(RStrip(rd, SEP))]

\* the path os.walk reports for the directory with components d
RECURSIVE WalkRoot(_, _)
WalkRoot(root_dir, d) ==
    IF d = <<>> THEN root_dir
    ELSE PathJoin(WalkRoot(root_dir, SubSeq(d, 1, Len(d) - 1)), d[Len(d)])

\* the test of Channel.__iter__ on a path
IsIncluded(filepath) ==
    LET m == GuessType(filepath) IN m # NoType /\ Contains(AUDIO, m)

\* relative_dir of Channel.__iter__
RelativeDir(root_dir, root) == SliceFrom(root, Len(root_dir) + 1)

\* the URL Channel.__iter__ gives the file fn found in directory root
EpisodeUrl(ch, root, fn) ==
    ch.root_url \o <<SEP>> \o RelativeDir(ch.root_dir, root) \o <<SEP>> \o fn

\* sorted(): stable, by Episode.__cmp__ on the dates read during the sort
RECURSIVE InsertByDate(_, _, _)
InsertByDate(e, s, date) ==
    IF s = <<>> THEN <<e>>
    ELSE IF TimeLess(date[e.file], date[Head(s).file]) THEN <<e>> \o s
    ELSE <<Head(s)>> \o InsertByDate(e, Tail(s), date)

RECURSIVE SortedByDate(_, _)
SortedByDate(eps, date) ==
    IF eps = <<>> THEN <<>>
    ELSE InsertByDate(eps[Len(eps)], SortedByDate(SubSeq(eps, 1, Len(eps) - 1), date), date)

(***************************************************************************)
(* State.                                                                  *)
(***************************************************************************)
VARIABLES
    channel,     \* the Channel object: root_dir, root_url, link, title
    tz,          \* the host's UTC offset in seconds, used by time.mktime
    interp,      \* the Python major version running the program
    rootExists,  \* whether the root directory exists and can be listed
    fs,          \* per file: whether it exists, its mtime, its tag data
    pc,          \* position of the current as_xml call
    stack,       \* directories os.walk has still to list, as components
    curRoot,     \* os.walk's path of the directory being processed
    curFiles,    \* files of that directory not yet looked at
    episodes,    \* Episode objects yielded so far, in walk order
    sorted,      \* the result of sorted(self)
    sortDate,    \* the date each episode showed while being sorted
    out,         \* items rendered so far
    doc,         \* the document returned by the last completed call
    err,         \* the exception that ended the last failed call
    nFs,         \* filesystem changes so far
    nReq,        \* as_xml calls started so far
    changed,     \* the filesystem changed since the previous call began
    prevDoc,     \* ok/doc of the call before the current one
    arg,         \* input of the pure function under check
    res          \* its result

walkVars == <<pc, stack, curRoot, curFiles, episodes, sorted, sortDate, out, doc, err>>
fsVars == <<rootExists, fs>>
cfgVars == <<channel, tz, interp>>
histVars == <<nFs, nReq, changed, prevDoc>>
pureVars == <<arg, res>>
vars == <<cfgVars, fsVars, walkVars, histVars, pureVars>>

NoDoc == [title |-> <<>>, link |-> <<>>, items |-> <<>>]
NoPrev == [ok |-> FALSE, doc |-> NoDoc]
NoSortDate == [f \in Files |-> NoTime]

\* os.path.getmtime(ep.filename) in filesystem state fsNow
Getmtime(fsNow, f) == [ok |-> fsNow[f].there, t |-> fsNow[f].mtime]

InCall == pc \in {"walk", "emit"}

(***************************************************************************)
(* Channel.as_xml, in the steps between which the filesystem may change.   *)
(***************************************************************************)
\* a Channel that keeps the episodes of its first walk and does not walk
\* again
BeginRequestCached ==
    /\ pc \in {"idle", "done", "failed"}
    /\ nReq < MaxRequests
    /\ nReq' = nReq + 1
    /\ pc' = "walk"
    /\ stack' = IF nReq = 0 THEN <<<<>>>> ELSE <<>>
    /\ curRoot' = <<>>
    /\ curFiles' = <<>>
    /\ episodes' = episodes
    /\ sorted' = <<>>
    /\ sortDate' = NoSortDate
    /\ out' = <<>>
    /\ err' = ""
    /\ changed' = FALSE
    /\ prevDoc' = IF nReq = 0 THEN NoPrev ELSE [ok |-> pc = "done" /\ ~changed, doc |-> doc]
    /\ UNCHANGED <<doc, nFs, cfgVars, fsVars, pureVars>>

\* a request begins: main's generate, or a GET / of serve
BeginRequest ==
    /\ pc \in {"idle", "done", "failed"}
    /\ nReq < MaxRequests
    /\ nReq' = nReq + 1
    /\ pc' = "walk"
    /\ stack' = <<<<>>>>
    /\ curRoot' = <<>>
    /\ curFiles' = <<>>
    /\ episodes' = <<>>
    /\ sorted' = <<>>
    /\ sortDate' = NoSortDate
    /\ out' = <<>>
    /\ err' = ""
    /\ changed' = FALSE
    /\ prevDoc' = IF nReq = 0 THEN NoPrev ELSE [ok |-> pc = "done" /\ ~changed, doc |-> doc]
    /\ UNCHANGED <<doc, nFs, cfgVars, fsVars, pureVars>>

\* os.walk lists the next directory, top-down; a directory that cannot be
\* listed is skipped without an error (onerror is None)
WalkDir ==
    /\ pc = "walk"
    /\ curFiles = <<>>
    /\ stack # <<>>
    /\ LET d == Head(stack)
       IN IF rootExists
          THEN /\ curRoot' = WalkRoot(channel.root_dir, d)
               /\ curFiles' = SetToSeqBy({f \in Files : fs[f].there /\ f.dir = d}, ListRank)
               /\ stack' = SetToSeqBy(SubdirsOf(d), DirRank) \o Tail(stack)
          ELSE /\ stack' = Tail(stack)
               /\ UNCHANGED <<curRoot, curFiles>>
    /\ UNCHANGED <<pc, episodes, sorted, sortDate, out, doc, err,
                   cfgVars, fsVars, histVars, pureVars>>

\* the body of the loop over files: the MIME test, the URL, Episode(...)
NextFile ==
    /\ pc = "walk"
    /\ curFiles # <<>>
    /\ LET f == Head(curFiles)
           filepath == PathJoin(curRoot, f.name)
       IN /\ curFiles' = Tail(curFiles)
          /\ IF ~IsIncluded(filepath)
             THEN UNCHANGED <<pc, episodes, err>>
             ELSE IF ~fs[f].there \/ fs[f].meta.file = "raise"
                  THEN /\ pc' = "failed"
                       /\ err' = "MutagenError"
                       /\ UNCHANGED episodes
                  ELSE /\ episodes' = Append(episodes,
                              NewEpisode(f, filepath, EpisodeUrl(channel, curRoot, f.name),
                                         fs[f].meta, fs[f].mtime))
                       /\ UNCHANGED <<pc, err>>
    /\ UNCHANGED <<stack, curRoot, sorted, sortDate, out, doc,
                   cfgVars, fsVars, histVars, pureVars>>

\* the dates the episodes show now
DatesNow(eps) ==
    [f \in Files |->
        IF \E i \in DOMAIN eps : eps[i].file = f
        THEN LET e == eps[CHOOSE i \in DOMAIN eps : eps[i].file = f]
             IN EpisodeDate(e.tags, tz, Getmtime(fs, f))
        ELSE [err |-> "", t |-> NoTime]]

\* sorted(self) once the walk is exhausted.  Fewer than two episodes are
\* never compared.  Two or more are compared with Episode.__cmp__, which
\* reads both dates; Python 3 has neither cmp nor __cmp__ and raises
\* TypeError at the first comparison.
SortEpisodes ==
    /\ pc = "walk"
    /\ curFiles = <<>>
    /\ stack = <<>>
    /\ LET d == DatesNow(episodes)
           bad == {i \in DOMAIN episodes : d[episodes[i].file].err # ""}
       IN IF Len(episodes) < 2
          THEN /\ sorted' = episodes
               /\ pc' = "emit"
               /\ UNCHANGED <<sortDate, err>>
          ELSE IF interp = 3
               THEN /\ pc' = "failed"
                    /\ err' = "TypeError: unorderable Episode"
                    /\ UNCHANGED <<sorted, sortDate>>
               ELSE IF bad # {}
                    THEN /\ pc' = "failed"
                         /\ err' = d[episodes[CHOOSE i \in bad : \A j \in bad : i <= j].file].err
                         /\ UNCHANGED <<sorted, sortDate>>
                    ELSE /\ sortDate' = [f \in Files |-> d[f].t]
                         /\ sorted' = SortedByDate(episodes, sortDate')
                         /\ pc' = "emit"
                         /\ UNCHANGED err
    /\ UNCHANGED <<stack, curRoot, curFiles, episodes, out, doc,
                   cfgVars, fsVars, histVars, pureVars>>

\* episode.as_xml() of the next sorted episode
EmitItem ==
    /\ pc = "emit"
    /\ Len(out) < Len(sorted)
    /\ LET ep == sorted[Len(out) + 1]
           x == EpisodeXml(ep, tz, Getmtime(fs, ep.file))
       IN IF x.err # ""
          THEN /\ pc' = "failed"
               /\ err' = x.err
               /\ UNCHANGED out
          ELSE /\ out' = Append(out, x.item)
               /\ UNCHANGED <<pc, err>>
    /\ UNCHANGED <<stack, curRoot, curFiles, episodes, sorted, sortDate, doc,
                   cfgVars, fsVars, histVars, pureVars>>

\* FEED_TEMPLATE.format(...) returns the document
FinishDoc ==
    /\ pc = "emit"
    /\ Len(out) = Len(sorted)
    /\ doc' = [title |-> Escape(channel.title), link |-> Escape(channel.link), items |-> out]
    /\ pc' = "done"
    /\ UNCHANGED <<stack, curRoot, curFiles, episodes, sorted, sortDate, out, err,
                   cfgVars, fsVars, histVars, pureVars>>

(***************************************************************************)
(* The environment: other processes change the tree under the root.        *)
(***************************************************************************)
EnvFiles == {FileA, FileB}
EnvTimes == {<<1, 0>>, <<3, 0>>}
EnvMetas == {MetaPlain, MetaDated(Date1971)}

FsChange ==
    /\ nFs < MaxFsOps
    /\ nFs' = nFs + 1
    /\ changed' = TRUE
    /\ UNCHANGED <<nReq, prevDoc, cfgVars, walkVars, pureVars>>

AddFile ==
    /\ rootExists
    /\ \E f \in EnvFiles, t \in EnvTimes, m \in EnvMetas :
          /\ ~fs[f].there
          /\ fs' = [fs EXCEPT ![f] = [there |-> TRUE, mtime |-> t, meta |-> m]]
    /\ UNCHANGED rootExists
    /\ FsChange

RemoveFile ==
    /\ \E f \in EnvFiles :
          /\ fs[f].there
          /\ fs' = [fs EXCEPT ![f] = Absent]
    /\ UNCHANGED rootExists
    /\ FsChange

\* a write to the file: its mtime moves, its tags may change
ModifyFile ==
    /\ \E f \in EnvFiles, t \in EnvTimes, m \in EnvMetas :
          /\ fs[f].there
          /\ TimeLess(fs[f].mtime, t)
          /\ fs' = [fs EXCEPT ![f] = [there |-> TRUE, mtime |-> t, meta |-> m]]
    /\ UNCHANGED rootExists
    /\ FsChange

RemoveRoot ==
    /\ rootExists
    /\ rootExists' = FALSE
    /\ fs' = [f \in Files |-> Absent]
    /\ FsChange

CreateRoot ==
    /\ ~rootExists
    /\ rootExists' = TRUE
    /\ UNCHANGED fs
    /\ FsChange

(***************************************************************************)
(* The program serving requests while the tree changes.                    *)
(***************************************************************************)
ROOT == <<"m">>
URL == <<"u">>

FsOf(S, t, m) == [f \in Files |-> IF f \in S THEN [there |-> TRUE, mtime |-> t, meta |-> m] ELSE Absent]
EmptyFs == [f \in Files |-> Absent]

\* the trees the program may be started on
InitFs ==
    {EmptyFs,
     FsOf({FileA, FileB}, <<1, 1>>, MetaPlain),
     FsOf({FileA}, <<1, 1>>, MetaNone),
     FsOf({FileB}, <<1, 1>>, MetaRaise),
     FsOf({FileA, FileR}, <<1, 0>>, MetaNoId3)}

\* no call in progress, nothing returned yet
CallIdle ==
    /\ pc = "idle"
    /\ stack = <<>>
    /\ curRoot = <<>>
    /\ curFiles = <<>>
    /\ episodes = <<>>
    /\ sorted = <<>>
    /\ sortDate = NoSortDate
    /\ out = <<>>
    /\ doc = NoDoc
    /\ err = ""
    /\ nFs = 0
    /\ nReq = 0
    /\ changed = FALSE
    /\ prevDoc = NoPrev

Init ==
    /\ channel = NewChannel(ROOT, URL, <<>>, <<>>, ROOT)
    /\ tz = 0
    /\ interp \in {2, 3}
    /\ \/ rootExists = FALSE /\ fs = EmptyFs
       \/ rootExists = TRUE /\ fs \in InitFs
    /\ CallIdle
    /\ arg = <<>>
    /\ res = <<>>

\* one as_xml call after another
Serve ==
    \/ BeginRequest
    \/ WalkDir
    \/ NextFile
    \/ SortEpisodes
    \/ EmitItem
    \/ FinishDoc

Next ==
    \/ BeginRequest
    \/ WalkDir
    \/ NextFile
    \/ SortEpisodes
    \/ EmitItem
    \/ FinishDoc
    \/ AddFile
    \/ RemoveFile
    \/ ModifyFile
    \/ RemoveRoot
    \/ CreateRoot

Spec == Init /\ [][Next]_vars

(***************************************************************************)
(* The program on a tree that does not change, for every configured root   *)
(* directory string and every set of files.                                *)
(***************************************************************************)
ROOTSLASH == <<"m", "/">>

InitWalk ==
    /\ \E rd \in {ROOT, ROOTSLASH, <<>>} : channel = NewChannel(rd, URL, <<>>, <<>>, ROOT)
    /\ tz = 0
    /\ interp \in {2, 3}
    /\ rootExists = TRUE
    /\ \E S \in SUBSET Files : fs = FsOf(S, <<1, 0>>, MetaPlain)
    /\ CallIdle
    /\ arg = <<>>
    /\ res = <<>>

SpecWalk == InitWalk /\ [][Serve]_vars

(***************************************************************************)
(* The program on trees whose texts hold XML metacharacters.               *)
(***************************************************************************)
Alphabet == {"a", "&", "<", ">", "'", "\"", "\n"}
Strings == UNION {[1..n -> Alphabet] : n \in 0..MaxStrLen}

InitEscape ==
    /\ arg \in Strings
    /\ channel = NewChannel(ROOT, URL \o arg, arg, arg, ROOT)
    /\ tz = 0
    /\ interp = 2
    /\ rootExists = TRUE
    /\ fs \in {EmptyFs, FsOf({FileA}, <<1, 0>>, MetaTitled(<<<<arg>>>>, <<>>))}
    /\ CallIdle
    /\ res = <<>>

SpecEscape == InitEscape /\ [][Serve]_vars

(***************************************************************************)
(* Episode.date on its own, for every tag value, mtime and time zone.      *)
(***************************************************************************)
RECURSIVE JoinFields(_)
\* the fields joined by the separators of the full format
JoinFields(fl) ==
    IF Len(fl) = 1 THEN fl[1]
    ELSE JoinFields(SubSeq(fl, 1, Len(fl) - 1)) \o <<FormatSeps[Len(fl) - 1]>> \o fl[Len(fl)]

FieldTexts ==
    << {<<"1","9","7","0">>, <<"2","0","2","1">>},
       {<<"0","1">>, <<"0","2">>, <<"5">>, <<"1","3">>},
       {<<"0","1">>, <<"3","1">>},
       {<<"0","0">>, <<"1">>, <<"2","4">>},
       {<<"0","0">>},
       {<<"0","0">>, <<"6","1">>} >>

\* date strings of one to six fields, and some that match no format
DateStrings ==
    UNION {{JoinFields(fl) : fl \in {g \in [1..n -> UNION Range(FieldTexts)] :
                                         \A i \in 1..n : g[i] \in FieldTexts[i]}}
           : n \in 1..NFormats}
    \cup {<<>>, <<"x">>, <<"2","1">>, <<"2","0","2","1","/","0","5">>,
          <<"2","0","2","1","-","0","5","-">>, <<"2","0","2","1",":","0","5">>}

DateTagLists == {<<>>} \cup {<<d>> : d \in DateStrings} \cup {<<d, Date1971>> : d \in {Date1970, <<"x">>}}

InitDate ==
    /\ \E keys \in {{}, {"date"}}, l \in DateTagLists, mt \in {<<5, 1>>, <<0, 0>>}, z \in {0, 3600} :
          /\ keys = {} => l = <<>>
          /\ arg = [tags |-> [isNone |-> FALSE, keys |-> keys, date |-> l], mtime |-> mt]
          /\ tz = z
    /\ res = [done |-> FALSE, d |-> [err |-> "", t |-> NoTime]]
    /\ channel = NewChannel(ROOT, URL, <<>>, <<>>, ROOT)
    /\ interp = 2
    /\ rootExists = TRUE
    /\ fs = EmptyFs
    /\ CallIdle

\* a read of episode.date
ReadDate ==
    /\ ~res.done
    /\ res' = [done |-> TRUE, d |-> EpisodeDate(arg.tags, tz, [ok |-> TRUE, t |-> arg.mtime])]
    /\ UNCHANGED <<arg, cfgVars, fsVars, walkVars, histVars>>

SpecDate == InitDate /\ [][ReadDate]_vars

(***************************************************************************)
(* Episode.title on its own, for file names and ID3 frames.                *)
(***************************************************************************)
\* file names with the stem each has: the name without directory and
\* extension
TitleNames ==
    { [filename |-> <<"e","p",".","m","p","3">>, stem |-> <<"e","p">>],
      [filename |-> <<"m","/","s","u","b","/","e","p","i","s","o","d","e","1",".","m","p","3">>,
       stem |-> <<"e","p","i","s","o","d","e","1">>],
      [filename |-> <<"m",".","d","/","a",".","b",".","o","g","g">>, stem |-> <<"a",".","b">>],
      [filename |-> <<"m",".","d","/","x">>, stem |-> <<"x">>] }

FrameIntro == <<INTRO>>
FrameX == <<<<"X">>>>
FrameTwo == <<<<"A">>, <<"B">>>>
FrameLists == {<<>>, <<FrameIntro>>, <<FrameX, FrameIntro>>, <<FrameTwo>>, <<FrameIntro, FrameX>>}

InitTitle ==
    /\ \E n \in TitleNames, ok \in BOOLEAN, t \in FrameLists, c \in FrameLists :
          arg = [filename |-> n.filename, stem |-> n.stem,
                 id3 |-> [ok |-> ok, TIT2 |-> IF ok THEN t ELSE <<>>, COMM |-> IF ok THEN c ELSE <<>>]]
    /\ res = [done |-> FALSE, title |-> <<>>]
    /\ channel = NewChannel(ROOT, URL, <<>>, <<>>, ROOT)
    /\ tz = 0
    /\ interp = 2
    /\ rootExists = TRUE
    /\ fs = EmptyFs
    /\ CallIdle

\* a read of episode.title
ReadTitle ==
    /\ ~res.done
    /\ res' = [done |-> TRUE, title |-> EpisodeTitle(arg.filename, arg.id3)]
    /\ UNCHANGED <<arg, cfgVars, fsVars, walkVars, histVars>>

SpecTitle == InitTitle /\ [][ReadTitle]_vars

(***************************************************************************)
(* Properties.                                                             *)
(***************************************************************************)
\* a call has returned a document and the tree has not changed since the
\* call began
Settled == pc = "done" /\ ~changed

ItemFiles(d) == {d.items[i].file : i \in DOMAIN d.items}
PathOf(f) == PathJoin(WalkRoot(channel.root_dir, f.dir), f.name)
WalkPos(f) == CHOOSE i \in DOMAIN episodes : episodes[i].file = f

\* C1: in every document as_xml returns the items are in ascending order of
\* their printed pubDate, and items whose dates were equal when sorted keep
\* the order in which the walk yielded them.
C1_ItemsAscendingByPubDate ==
    pc = "done" =>
        \A i, j \in DOMAIN doc.items :
            i < j =>
                /\ ParsePubDate(doc.items[i].date) <= ParsePubDate(doc.items[j].date)
                /\ sortDate[doc.items[i].file] = sortDate[doc.items[j].file]
                      => WalkPos(doc.items[i].file) < WalkPos(doc.items[j].file)

RECURSIVE JoinPath(_)
\* the components of a directory joined by the separator
JoinPath(d) ==
    IF d = <<>> THEN <<>>
    ELSE IF Len(d) = 1 THEN d[1]
    ELSE d[1] \o <<SEP>> \o JoinPath(Tail(d))

\* C3: the enclosure URL of every episode is rootURL/relativeDirectory/
\* fileName, relativeDirectory being the file's directory relative to the
\* root (empty directly under it), whatever the root directory string.
C3_UrlIsRootUrlRelDirName ==
    \A i \in DOMAIN episodes :
        episodes[i].url =
            channel.root_url \o <<SEP>> \o JoinPath(episodes[i].file.dir)
                \o <<SEP>> \o episodes[i].file.name

\* C4: the items of a document are exactly the files under the root whose
\* MIME type has the top-level category audio.
C4_ItemsAreExactlyAudioFiles ==
    Settled =>
        ItemFiles(doc) = {f \in Files : fs[f].there /\ TopLevel(GuessType(f.name)) = AUDIO}

\* the tag library gives no tag mapping for the file
TagFailure(m) == m.file \in {"raise", "none"} \/ ~m.id3

StemOf(f) == SubSeq(f.name, 1, RFind(f.name, ".") - 1)

\* C5: a call on a tree holding an audio file whose tags cannot be decoded
\* still returns a document, with an item for that file titled by the
\* filename stem and dated by the file's mtime.
C5_TagFailureNeverAborts ==
    \A f \in Files :
        /\ pc \in {"done", "failed"}
        /\ ~changed
        /\ err # "TypeError: unorderable Episode"
        /\ fs[f].there
        /\ IsIncluded(PathOf(f))
        /\ TagFailure(fs[f].meta)
        => /\ pc = "done"
           /\ \E i \in DOMAIN doc.items :
                 /\ doc.items[i].file = f
                 /\ doc.items[i].title = Escape(StemOf(f))
                 /\ doc.items[i].date = FormatDate(fs[f].mtime)

\* C6: no document is returned for a root directory that does not exist.
C6_MissingRootGivesNoDocument == Settled => rootExists

C10_EpisodeDateFixedAtConstruction ==
    /\ \A i \in DOMAIN episodes :
          InCall =>
             LET e == episodes[i]
             IN EpisodeDate(e.tags, tz, Getmtime(fs, e.file))
                   = EpisodeDate(e.tags, tz, [ok |-> TRUE, t |-> e.mt0])
    /\ \A i \in DOMAIN out :
          Len(sorted) >= 2 => out[i].date = FormatDate(sortDate[out[i].file])

\* C2: the publish date is the epoch-seconds value of the first of the six
\* formats that parses the first value of the date tag, and the file's
\* mtime only when there is no value or no format parses it.
C2_DateIsFirstParsingFormat ==
    res.done =>
        LET l == arg.tags.date
            has == "date" \in arg.tags.keys /\ l # <<>>
            K == IF has THEN {k \in 1..NFormats : Strptime(l[1], k).ok} ELSE {}
        IN IF K # {}
           THEN res.d = [err |-> "",
                         t |-> Mktime(Strptime(l[1], CHOOSE k \in K : \A j \in K : k <= j), tz)]
           ELSE res.d = [err |-> "", t |-> arg.mtime]

C8_EscapingRoundTrips ==
    pc = "done" =>
        /\ XmlDecode(doc.title) = channel.title
        /\ XmlDecode(doc.link) = channel.link
        /\ \A i \in DOMAIN doc.items :
              LET url == URL \o arg \o <<SEP, SEP>> \o doc.items[i].file.name
              IN /\ XmlDecode(doc.items[i].title) = <<"a">> \o arg
                 /\ AttrDecode(doc.items[i].url) = url
                 /\ XmlDecode(doc.items[i].quid) = url

\* a document with an item was returned for texts holding an ampersand and
\* both kinds of quote
C8_Witness ==
    /\ pc = "done"
    /\ Len(doc.items) = 1
    /\ {"&", "'", "\""} \subseteq Range(arg)

=============================================================================
